---------------------------- MODULE Spec2Model ----------------------------
(*
  URL shortener (HireKoAI/UrlShortner): the create-or-get handler, the
  redirect handler and the DynamoDB helpers they share, as one state machine.

  The DynamoDB table is a function from shortId to item; an item is a record
  whose fields are the attributes it carries (a DynamoDB item has no schema,
  so an attribute may be missing).  Every store call (get_item, query,
  put_item, update_item, delete_item) is one atomic step; a Lambda
  invocation is a sequence of such steps, and invocations interleave.

  Time is counted in ticks, TicksPerSecond to the second.  An ISO-8601 text
  is a record [kind, local, hasT, tz]: the wall-clock instant it spells, and
  the timezone markers that follow it, in order.
*)
EXTENDS Integers, Sequences, FiniteSets, TLC

\* ------------------------------------------------------------- bounds
\* Clock resolution of the model (the code's clock has microseconds).
TicksPerSecond == 2
\* Requests start at instants 0..MaxEarly ...
MaxEarly == 1
\* ... and the clock can also be at the 60-day mark plus 0..MaxLate ticks.
MaxLate == 1
\* Concurrent Lambda invocations.
NumReqs == 2
\* Invocations started in one behaviour.
MaxRequests == 2
\* Cap of the click counter (the code's counter is unbounded).
MaxClicks == 2
\* Direct calls of is_expired: the instants 0 .. MaxProbeTime, as the current
\* instant and as the local time of the text; UTC offsets 0 .. MaxOffset.
MaxProbeTime == 3
MaxOffset == 1
\* Direct calls of the scan of find_existing_url: the query lists at most
\* MaxCandidates items.
MaxCandidates == 2
\* Direct calls of generate_short_url: the first MaxDigestBytes bytes of the
\* SHA-256 digest vary, the others are 0.
MaxDigestBytes == 5
\* Direct calls of calculate_expiry_date: days in -MaxDays .. MaxDays.
MaxDays == 6
\* Direct calls of extract_path_parameters: proxy paths of at most
\* MaxPathParts segments.
MaxPathParts == 5

\* ---------------------------------------------------- program constants
SHORT_URL_LENGTH == 6
HASH_TRUNCATE_LENGTH == 16
EXTENDED_HASH_LENGTH == 24
DEFAULT_EXPIRY_DAYS == 60
CUSTOM_SUFFIX_MAX_LENGTH == 20
CUSTOM_SUFFIX_MIN_LENGTH == 3
MAX_URL_LENGTH == 2048
MAX_COLLISION_RETRIES == 3
HTTP_STATUS_OK == 200
HTTP_STATUS_CREATED == 201
HTTP_STATUS_FOUND == 302
HTTP_STATUS_BAD_REQUEST == 400
HTTP_STATUS_NOT_FOUND == 404
HTTP_STATUS_CONFLICT == 409
HTTP_STATUS_GONE == 410
HTTP_STATUS_INTERNAL_ERROR == 500

SecondsPerDay == 86400
DayTicks == SecondsPerDay * TicksPerSecond
ExpiryTicks == DEFAULT_EXPIRY_DAYS * DayTicks

\* The instants the clock takes: a few at the start, a few around the
\* expiry of the mappings created at the start.
Instants == (0 .. MaxEarly) \cup {ExpiryTicks + i : i \in 0 .. (MaxEarly + MaxLate)}

\* ------------------------------------------------------------ ISO texts
\* datetime.isoformat() of a timezone-aware UTC datetime: "....T....+00:00".
UtcOffset == [sign |-> "+", off |-> 0]
ZMarker == [sign |-> "Z", off |-> 0]
IsoUtc(t) == [kind |-> "iso", local |-> t, hasT |-> TRUE, tz |-> <<UtcOffset>>]
NoText == [kind |-> "none"]
EmptyText == [kind |-> "empty"]
\* A text that is no date at all, such as "invalid-date".
NotADate == [kind |-> "other", local |-> 0, hasT |-> FALSE, tz |-> <<>>]

\* int(datetime.now(timezone.utc).timestamp()), int(expiry.timestamp())
EpochSeconds(t) == t \div TicksPerSecond

get_current_timestamp(t) == IsoUtc(t)

\* is_expired, lines 160-164: the rewriting of the text before it is parsed.
NormalizeExpiryText(e) ==
  IF Len(e.tz) > 0 /\ e.tz[Len(e.tz)] = ZMarker
  THEN [e EXCEPT !.tz = SubSeq(e.tz, 1, Len(e.tz) - 1) \o <<UtcOffset>>]
  ELSE IF (\A i \in 1 .. Len(e.tz) : e.tz[i].sign # "+") /\ e.hasT
       THEN [e EXCEPT !.tz = e.tz \o <<UtcOffset>>]
       ELSE e

\* datetime.fromisoformat accepts a date and time with at most one numeric
\* offset after it, and nothing else.
IsoParses(e) ==
  /\ e.kind = "iso"
  /\ (Len(e.tz) = 0 \/ (Len(e.tz) = 1 /\ e.tz[1].sign \in {"+", "-"}))

\* The UTC instant of a parsed text; a naive one is taken as UTC (line 170).
IsoInstant(e) ==
  IF Len(e.tz) = 0 THEN e.local
  ELSE IF e.tz[1].sign = "+" THEN e.local - e.tz[1].off
       ELSE e.local + e.tz[1].off

is_expired_never(expiry_date, t) == FALSE

is_expired_at_or_after(expiry_date, t) ==
  IF expiry_date.kind \in {"none", "empty"} THEN TRUE
  ELSE LET n == NormalizeExpiryText(expiry_date)
       IN IF ~IsoParses(n) THEN TRUE ELSE t >= IsoInstant(n)

is_expired_unparsed_alive(expiry_date, t) ==
  IF expiry_date.kind \in {"none", "empty"} THEN TRUE
  ELSE LET n == NormalizeExpiryText(expiry_date)
       IN IF ~IsoParses(n) THEN FALSE ELSE t > IsoInstant(n)

\* is_expired(expiry_date) evaluated at instant t.
is_expired(expiry_date, t) ==
  IF expiry_date.kind \in {"none", "empty"} THEN TRUE
  ELSE LET n == NormalizeExpiryText(expiry_date)
       IN IF ~IsoParses(n) THEN TRUE ELSE t > IsoInstant(n)

DaysRejectedWhenNegative(days) == days < 0

\* calculate_expiry_date, lines 138-139: days for which it raises ValueError.
DaysRejected(days) == days <= 0

calculate_expiry_date_of_now(days, t) == IsoUtc(t)

\* calculate_expiry_date(days) at instant t, for days it does not reject.
calculate_expiry_date(days, t) == IsoUtc(t + days * DayTicks)

TtlOfInTicks(expiry_date) == IsoInstant(expiry_date)

\* create_short_url_with_retry, lines 171-174: the TTL in epoch seconds.
TtlOf(expiry_date) ==
  LET n == IF Len(expiry_date.tz) > 0 /\ expiry_date.tz[Len(expiry_date.tz)] = ZMarker
           THEN [expiry_date EXCEPT !.tz = SubSeq(expiry_date.tz, 1, Len(expiry_date.tz) - 1)
                                             \o <<UtcOffset>>]
           ELSE expiry_date
  IN EpochSeconds(IsoInstant(n))

\* ------------------------------------------------- short codes, suffixes
\* A code or suffix is the sequence of its characters; <<>> is an absent
\* (None) or empty suffix, which the code does not tell apart (both falsy).
SuffixAlphabet ==
  {"a","b","c","d","e","f","g","h","i","j","k","l","m","n","o","p","q","r","s",
   "t","u","v","w","x","y","z","A","B","C","D","E","F","G","H","I","J","K","L",
   "M","N","O","P","Q","R","S","T","U","V","W","X","Y","Z","0","1","2","3","4",
   "5","6","7","8","9","_","-"}

NoCode == <<>>
CodeG1 == <<"A","b","3","_","x","Z">>
CodeG2 == <<"q","-","7","K","p","L">>
MyLink == <<"m","y","-","l","i","n","k">>
TooShort == <<"a","b">>

\* The codes the digest of (long_url, timestamp) can come out as: SHA-256 is
\* not computed; any code of the sample may be the result of any call.
GenCodes == {CodeG1, CodeG2}
\* What a caller may send as customSuffix.
SuffixInputs == {NoCode, MyLink, CodeG1, TooShort}
Codes == GenCodes \cup {MyLink}

\* re.compile(r'^[a-zA-Z0-9_-]+$').match(suffix): '$' also matches just
\* before one trailing newline.
MatchesSuffixPattern(suffix) ==
  LET body == IF Len(suffix) > 1 /\ suffix[Len(suffix)] = "\n"
              THEN SubSeq(suffix, 1, Len(suffix) - 1) ELSE suffix
  IN Len(body) > 0 /\ \A i \in 1 .. Len(body) : body[i] \in SuffixAlphabet

is_valid_custom_suffix_below_max(suffix) ==
  /\ Len(suffix) > 0
  /\ ~(Len(suffix) < CUSTOM_SUFFIX_MIN_LENGTH \/ Len(suffix) >= CUSTOM_SUFFIX_MAX_LENGTH)
  /\ MatchesSuffixPattern(suffix)

is_valid_custom_suffix(suffix) ==
  /\ Len(suffix) > 0
  /\ ~(Len(suffix) < CUSTOM_SUFFIX_MIN_LENGTH \/ Len(suffix) > CUSTOM_SUFFIX_MAX_LENGTH)
  /\ MatchesSuffixPattern(suffix)

\* The alphabet of base64.urlsafe_b64encode, by sextet value.
Base64UrlChars ==
  <<"A","B","C","D","E","F","G","H","I","J","K","L","M","N","O","P","Q","R","S",
    "T","U","V","W","X","Y","Z","a","b","c","d","e","f","g","h","i","j","k","l",
    "m","n","o","p","q","r","s","t","u","v","w","x","y","z","0","1","2","3","4",
    "5","6","7","8","9","-","_">>

\* The alphabet of base64.b64encode.
Base64StdChars == [i \in 1 .. 64 |->
  IF i = 63 THEN "+" ELSE IF i = 64 THEN "/" ELSE Base64UrlChars[i]]

\* Base64 of a sequence of bytes over the alphabet chars: three bytes give
\* four characters; one or two bytes left over give two or three
\* characters and '=' padding.
RECURSIVE Base64Encode(_, _)
Base64Encode(bytes, chars) ==
  IF Len(bytes) = 0 THEN <<>>
  ELSE IF Len(bytes) = 1
  THEN LET n == bytes[1] * 16
       IN <<chars[(n \div 64) + 1], chars[(n % 64) + 1], "=", "=">>
  ELSE IF Len(bytes) = 2
  THEN LET n == (bytes[1] * 256 + bytes[2]) * 4
       IN <<chars[(n \div 4096) + 1], chars[((n \div 64) % 64) + 1], chars[(n % 64) + 1], "=">>
  ELSE LET n == bytes[1] * 65536 + bytes[2] * 256 + bytes[3]
       IN <<chars[(n \div 262144) + 1], chars[((n \div 4096) % 64) + 1],
            chars[((n \div 64) % 64) + 1], chars[(n % 64) + 1]>>
            \o Base64Encode(SubSeq(bytes, 4, Len(bytes)), chars)

b64encode(bytes) == Base64Encode(bytes, Base64StdChars)

urlsafe_b64encode(bytes) == Base64Encode(bytes, Base64UrlChars)

\* hash_b64.replace('=', '')
RemovePadding(text) == SelectSeq(text, LAMBDA c : c # "=")

\* bytes.fromhex(hash_hex[:hex_length]): two hex digits make a byte.
DigestPrefix(hash_bytes, hex_length) == SubSeq(hash_bytes, 1, hex_length \div 2)

\* text[:length]
Truncate(text, length) == SubSeq(text, 1, IF Len(text) < length THEN Len(text) ELSE length)

\* generate_short_url, lines 46-57: the code made of the SHA-256 digest
\* hash_bytes of the long URL and the timestamp.
ShortCodeOfDigest(hash_bytes) ==
  LET clean_b64 == RemovePadding(urlsafe_b64encode(DigestPrefix(hash_bytes, HASH_TRUNCATE_LENGTH)))
  IN IF Len(clean_b64) < SHORT_URL_LENGTH
     THEN Truncate(RemovePadding(urlsafe_b64encode(
                     DigestPrefix(hash_bytes, EXTENDED_HASH_LENGTH))), SHORT_URL_LENGTH)
     ELSE Truncate(clean_b64, SHORT_URL_LENGTH)

\* generate_short_url(long_url, custom_suffix): the set of results it can
\* give; {} stands for the ValueError it raises on a malformed suffix.
generate_short_url(long_url, custom_suffix) ==
  IF Len(custom_suffix) > 0
  THEN IF is_valid_custom_suffix(custom_suffix) THEN {custom_suffix} ELSE {}
  ELSE GenCodes

\* ----------------------------------------------------------------- URLs
\* A long URL: its identity, its length, whether it starts with a private
\* address, and whether it matches the URL pattern.
NoUrl == [id |-> "", len |-> 0, private |-> FALSE, shape |-> FALSE]
UrlA == [id |-> "https://a.com", len |-> 13, private |-> FALSE, shape |-> TRUE]
UrlB == [id |-> "https://b.org/x", len |-> 15, private |-> FALSE, shape |-> TRUE]
UrlPrivate == [id |-> "http://10.0.0.1/", len |-> 16, private |-> TRUE, shape |-> TRUE]
UrlLong == [id |-> "https://a.com/long...", len |-> MAX_URL_LENGTH + 1, private |-> FALSE,
            shape |-> TRUE]
UrlInputs == {NoUrl, UrlA, UrlB, UrlPrivate, UrlLong}

is_valid_url_any_length(url) ==
  /\ url.len # 0
  /\ ~url.private
  /\ url.shape

is_valid_url(url) ==
  /\ ~(url.len = 0 \/ url.len > MAX_URL_LENGTH)
  /\ ~url.private
  /\ url.shape

\* ------------------------------------------------------------ the store
NoItem == [none |-> TRUE]
IsItem(item) == "none" \notin DOMAIN item

\* item.get(attr, default)
Attr(item, attr, default) == IF attr \in DOMAIN item THEN item[attr] ELSE default

\* What a store call can raise besides doing its work: a botocore
\* ClientError with some error code, or an exception that is no ClientError.
Faults == {"ResourceNotFoundException", "ServiceUnavailable", "NonClientError"}
ClientErrorCodes == {"ConditionalCheckFailedException", "ResourceNotFoundException",
                     "ServiceUnavailable"}

\* _handle_client_error: the exception raised for a ClientError code.
handle_client_error(error_code) ==
  IF error_code = "ConditionalCheckFailedException" THEN "ConflictError"
  ELSE IF error_code = "ResourceNotFoundException" THEN "NotFoundError"
       ELSE "DatabaseError"

\* The exception a store helper that routes ClientError through
\* _handle_client_error ends with, for each fault.
RaisedFor(fault) ==
  IF fault \in ClientErrorCodes THEN handle_client_error(fault) ELSE "Exception"

\* table.get_item(Key={'shortId': short_id}).get('Item')
GetItem(tbl, short_id) == IF short_id \in DOMAIN tbl THEN tbl[short_id] ELSE NoItem

PutNeverRefused(tbl, item) == FALSE

\* ConditionExpression='attribute_not_exists(shortId)': whether put_item
\* is refused.
PutRefused(tbl, item) == item.shortId \in DOMAIN tbl

\* The table after put_item(Item=item).
PutItem(tbl, item) ==
  [k \in DOMAIN tbl \cup {item.shortId} |-> IF k = item.shortId THEN item ELSE tbl[k]]

\* The table after delete_item(Key={'shortId': short_id}).
DeleteItem(tbl, short_id) == [k \in DOMAIN tbl \ {short_id} |-> tbl[k]]

UpdatedItemFromOne(tbl, short_id, ts) ==
  LET old == IF short_id \in DOMAIN tbl THEN tbl[short_id] ELSE [shortId |-> short_id]
  IN [a \in DOMAIN old \cup {"clickCount", "lastAccessedAt"} |->
        IF a = "clickCount" THEN 1
        ELSE IF a = "lastAccessedAt" THEN ts
             ELSE old[a]]

UpdatedItemReplaces(tbl, short_id, ts) ==
  [shortId |-> short_id, lastAccessedAt |-> ts,
   clickCount |-> (IF short_id \in DOMAIN tbl THEN Attr(tbl[short_id], "clickCount", 0) ELSE 0) + 1]

\* The item update_item leaves under short_id: SET clickCount =
\* if_not_exists(clickCount, 0) + 1, lastAccessedAt = ts.  update_item
\* creates the item when the key is absent.
UpdatedItem(tbl, short_id, ts) ==
  LET old == IF short_id \in DOMAIN tbl THEN tbl[short_id] ELSE [shortId |-> short_id]
  IN [a \in DOMAIN old \cup {"clickCount", "lastAccessedAt"} |->
        IF a = "clickCount" THEN Attr(old, "clickCount", 0) + 1
        ELSE IF a = "lastAccessedAt" THEN ts
             ELSE old[a]]

\* create_url_mapping, lines 151-158: the item it writes.
NewItem(short_id, long_url, expiry_date, ttl_timestamp, t) ==
  [shortId |-> short_id, longUrl |-> long_url, createdAt |-> get_current_timestamp(t),
   expiryDate |-> expiry_date, ttlTimestamp |-> ttl_timestamp, clickCount |-> 0]

\* The query of find_existing_url: the items of the longUrl-index under
\* long_url that pass the FilterExpression ttlTimestamp > now (in seconds).
QueryItems(tbl, long_url, t) ==
  {tbl[k] : k \in {c \in DOMAIN tbl :
       /\ "longUrl" \in DOMAIN tbl[c] /\ tbl[c].longUrl = long_url
       /\ "ttlTimestamp" \in DOMAIN tbl[c] /\ tbl[c].ttlTimestamp > EpochSeconds(t)}}

\* The orders in which the query can return a set of items.
Orderings(S) ==
  {q \in [1 .. Cardinality(S) -> S] : \A i, j \in 1 .. Cardinality(S) : i # j => q[i] # q[j]}

FirstCandidate(items, t) == IF Len(items) = 0 THEN NoItem ELSE items[1]

\* find_existing_url, lines 114-118: the first item of the list that is
\* not expired, or NoItem.
FirstAlive(items, t) ==
  LET alive == {i \in 1 .. Len(items) : ~is_expired(Attr(items[i], "expiryDate", EmptyText), t)}
  IN IF alive = {} THEN NoItem
     ELSE items[CHOOSE i \in alive : \A j \in alive : i <= j]

\* --------------------------------------------------------------- state
VARIABLES
  now,      \* the current instant, in ticks
  table,    \* the DynamoDB table: shortId -> item
  req,      \* the Lambda invocations in flight, one per slot
  started,  \* invocations started so far
  probe     \* a direct call of a library function: its argument and result

vars == <<now, table, req, started, probe>>

Reqs == 1 .. NumReqs

NoResp == [status |-> 0]

NoExc == [type |-> "", message |-> ""]

\* No library function is called directly.
NoProbe == [fn |-> "none"]

\* A slot with no invocation.  body is the kind of the event's body, puts is the list of conditional inserts the
\* invocation has issued, clicks the number of update_item calls, found the
\* item its lookup returned, exc the exception that reached the handler's
\* except clauses, resp the response it returned.
IdleReq ==
  [op |-> "none", pc |-> "idle", body |-> "none", long_url |-> NoUrl, custom_suffix |-> NoCode,
   short_id |-> NoCode, attempt |-> 0, expiry_date |-> NoText, ttl_timestamp |-> 0,
   puts |-> <<>>, found |-> NoItem, clicks |-> 0, exc |-> NoExc, resp |-> NoResp]

Init ==
  /\ now = 0
  /\ table = [k \in {} |-> NoItem]
  /\ req = [r \in Reqs |-> IdleReq]
  /\ started = 0
  /\ probe = NoProbe

\* An invocation starts in the lowest slot that holds none in flight (the
\* slots are interchangeable); the answer of the slot's last invocation is
\* dropped then.
Free(r) == req[r].pc \in {"idle", "done"}
LowestFree(r) == Free(r) /\ \A o \in Reqs : o < r => ~Free(o)

\* ------------------------------------------------- responses of handlers
\* create_error_response / create_json_response with an error body.
ErrorResponse(status_code, error_message) == [status |-> status_code, error |-> error_message]

CreateHandlerExceptOwnStatus(exc, message) ==
  IF exc = "ValidationError" THEN ErrorResponse(HTTP_STATUS_BAD_REQUEST, message)
  ELSE IF exc = "ConflictError" THEN ErrorResponse(HTTP_STATUS_CONFLICT, message)
  ELSE IF exc = "NotFoundError" THEN ErrorResponse(HTTP_STATUS_NOT_FOUND, message)
  ELSE IF exc = "DatabaseError"
       THEN ErrorResponse(HTTP_STATUS_INTERNAL_ERROR, "Database operation failed")
  ELSE IF exc = "JSONDecodeError"
       THEN ErrorResponse(HTTP_STATUS_BAD_REQUEST, "Invalid JSON format")
  ELSE ErrorResponse(HTTP_STATUS_INTERNAL_ERROR, "Internal server error")

\* getOrCreateShortURL.lambda_handler, lines 107-151: the response for an
\* exception raised inside the try block.
CreateHandlerExcept(exc, message) ==
  IF exc = "ValidationError" THEN ErrorResponse(HTTP_STATUS_BAD_REQUEST, message)
  ELSE IF exc = "ConflictError" THEN ErrorResponse(HTTP_STATUS_CONFLICT, message)
  ELSE IF exc = "DatabaseError"
       THEN ErrorResponse(HTTP_STATUS_INTERNAL_ERROR, "Database operation failed")
  ELSE IF exc = "JSONDecodeError"
       THEN ErrorResponse(HTTP_STATUS_BAD_REQUEST, "Invalid JSON format")
  ELSE ErrorResponse(HTTP_STATUS_INTERNAL_ERROR, "Internal server error")

\* redirectURL.lambda_handler, lines 89-120.
RedirectHandlerExcept(exc, message) ==
  IF exc = "ValidationError" THEN ErrorResponse(HTTP_STATUS_BAD_REQUEST, message)
  ELSE IF exc = "DatabaseError"
       THEN ErrorResponse(HTTP_STATUS_INTERNAL_ERROR, "Service temporarily unavailable")
  ELSE ErrorResponse(HTTP_STATUS_INTERNAL_ERROR, "Internal server error")

\* The message of the exception _handle_client_error raises.
ExcMessage(exc) ==
  IF exc = "ConflictError" THEN "Resource already exists or condition not met"
  ELSE IF exc = "NotFoundError" THEN "Resource not found"
  ELSE "Database error"

\* The invocation q returns response.
Finish(q, response) == [q EXCEPT !.pc = "done", !.resp = response]

\* An exception of class exc is raised inside the try block of the
\* create-or-get handler, which answers for it.
CreateRaises(q, exc, message) ==
  [Finish(q, CreateHandlerExcept(exc, message))
     EXCEPT !.exc = [type |-> exc, message |-> message]]

\* The same in the redirect handler.
RedirectRaises(q, exc, message) ==
  [Finish(q, RedirectHandlerExcept(exc, message))
     EXCEPT !.exc = [type |-> exc, message |-> message]]

\* ------------------------------------------------------ create-or-get
\* lambda_handler, lines 54-68: the request is read and validated.
StartCreate(r, url, suffix) ==
  /\ LowestFree(r)
  /\ started < MaxRequests
  /\ started' = started + 1
  /\ LET q == [IdleReq EXCEPT !.op = "create", !.body = "object", !.long_url = url,
                              !.custom_suffix = suffix]
     IN req' = [req EXCEPT ![r] =
          IF url.len = 0
          THEN CreateRaises(q, "ValidationError", "Missing required field: longUrl")
          ELSE IF ~is_valid_url(url)
               THEN CreateRaises(q, "ValidationError", "Invalid URL format")
               ELSE [q EXCEPT !.pc = "dedup"]]
  /\ UNCHANGED <<now, table, probe>>

\* The bodies parse_request_body does not make a dict of: no body, an empty
\* one ('' or {}), a string that is not JSON, a body that is neither a string
\* nor a dict, and a JSON string of something that is no object.
BadBodies == {"missing", "empty", "invalid_json", "number", "json_array"}

\* parse_request_body(event) for a body of BadBodies, and body.get for the
\* last of them: the exception raised.
BodyException(body) ==
  IF body \in {"missing", "empty"}
  THEN [type |-> "ValueError", message |-> "Request body is required"]
  ELSE IF body = "invalid_json"
       THEN [type |-> "JSONDecodeError", message |-> "Invalid JSON in request body"]
  ELSE IF body = "number"
       THEN [type |-> "ValueError", message |-> "Invalid body type"]
  ELSE [type |-> "AttributeError", message |-> "object has no attribute 'get'"]

\* lambda_handler, lines 59-60, for a body of BadBodies: the exception is
\* raised inside the try block and the handler answers for it.
StartCreateBadBody(r, body) ==
  /\ LowestFree(r)
  /\ started < MaxRequests
  /\ started' = started + 1
  /\ req' = [req EXCEPT ![r] =
               CreateRaises([IdleReq EXCEPT !.op = "create", !.body = body],
                            BodyException(body).type, BodyException(body).message)]
  /\ UNCHANGED <<now, table, probe>>

\* lambda_handler, lines 76-84: the response that reuses a mapping.
ExistingResponse(existing_item) ==
  [status |-> HTTP_STATUS_OK, shortId |-> existing_item.shortId,
   longUrl |-> existing_item.longUrl, expiryDate |-> existing_item.expiryDate,
   created |-> FALSE]

\* lambda_handler, lines 96-104: the response for a new mapping.
CreatedResponse(short_id, long_url, created_item) ==
  [status |-> HTTP_STATUS_CREATED, shortId |-> short_id, longUrl |-> long_url,
   expiryDate |-> created_item.expiryDate, created |-> TRUE]

\* find_existing_url fails: the query raises.
FindExistingFails(r) ==
  /\ req[r].pc = "dedup"
  /\ \E fault \in Faults :
       req' = [req EXCEPT ![r] =
                 CreateRaises(req[r], RaisedFor(fault), ExcMessage(RaisedFor(fault)))]
  /\ UNCHANGED <<now, table, started, probe>>

\* find_existing_url(long_url) at instant t: the items it can return, one
\* for each order in which the query can list its results.
find_existing_url(tbl, long_url, t) ==
  {FirstAlive(items, t) : items \in Orderings(QueryItems(tbl, long_url, t))}

\* find_existing_url returns; lambda_handler lines 70-84 answer with the
\* mapping found, or create_short_url_with_retry lines 171-175 compute the
\* expiry of the mapping to create.
FindExisting(r) ==
  /\ req[r].pc = "dedup"
  /\ \E existing_item \in find_existing_url(table, req[r].long_url, now) :
       LET expiry_date == calculate_expiry_date(DEFAULT_EXPIRY_DAYS, now)
       IN req' = [req EXCEPT ![r] =
            IF IsItem(existing_item)
            THEN [Finish(req[r], ExistingResponse(existing_item))
                    EXCEPT !.found = existing_item]
            ELSE [req[r] EXCEPT !.pc = "attempt", !.attempt = 0,
                                !.expiry_date = expiry_date,
                                !.ttl_timestamp = TtlOf(expiry_date)]]
  /\ UNCHANGED <<now, table, started, probe>>

\* create_short_url_with_retry, lines 179-185: the codes this attempt can
\* try; {} when generate_short_url raises ValueError.
AttemptCodes(long_url, custom_suffix, attempt) ==
  IF Len(custom_suffix) > 0 /\ attempt = 0
  THEN generate_short_url(long_url, custom_suffix)
  ELSE generate_short_url(long_url, NoCode)

AfterConflictRetriesCustom(custom_suffix, attempt) ==
  IF attempt = MAX_COLLISION_RETRIES - 1 THEN "exhausted" ELSE "retry"

AfterConflictOneMore(custom_suffix, attempt) ==
  IF Len(custom_suffix) > 0 THEN "conflict"
  ELSE IF attempt = MAX_COLLISION_RETRIES THEN "exhausted"
       ELSE "retry"

\* create_short_url_with_retry, lines 198-210: what follows a
\* ConflictError of create_url_mapping.
AfterConflict(custom_suffix, attempt) ==
  IF Len(custom_suffix) > 0 THEN "conflict"
  ELSE IF attempt = MAX_COLLISION_RETRIES - 1 THEN "exhausted"
       ELSE "retry"

\* The invocation after a put_item of short_id that the store refused.
OnConflict(q, short_id) ==
  LET c == [q EXCEPT !.short_id = short_id,
                     !.puts = @ \o <<[code |-> short_id, result |-> "exists"]>>]
      next == AfterConflict(q.custom_suffix, q.attempt)
  IN IF next = "conflict"
     THEN CreateRaises(c, "ConflictError", ExcMessage("ConflictError"))
     ELSE IF next = "exhausted"
          THEN CreateRaises(c, "DatabaseError",
                            "Unable to generate unique short URL after multiple attempts")
          ELSE [c EXCEPT !.attempt = @ + 1]

OnInsertedKeepsLooping(q, short_id, item) ==
  [q EXCEPT !.short_id = short_id, !.attempt = @ + 1,
            !.puts = @ \o <<[code |-> short_id, result |-> "ok"]>>]

\* The invocation after a put_item that stored item: line 196 returns, and
\* lambda_handler lines 93-105 answer.
OnInserted(q, short_id, item) ==
  [Finish(q, CreatedResponse(short_id, q.long_url, item))
     EXCEPT !.short_id = short_id,
            !.puts = @ \o <<[code |-> short_id, result |-> "ok"]>>]

\* The attempt's generate_short_url raises ValueError (malformed suffix).
AttemptInvalidSuffix(r) ==
  /\ req[r].pc = "attempt"
  /\ AttemptCodes(req[r].long_url, req[r].custom_suffix, req[r].attempt) = {}
  /\ req' = [req EXCEPT ![r] = CreateRaises(req[r], "ValueError", "Custom suffix must be")]
  /\ UNCHANGED <<now, table, started, probe>>

OnStoreErrorRetries(q, short_id, fault) ==
  LET c == [q EXCEPT !.short_id = short_id,
                     !.puts = @ \o <<[code |-> short_id, result |-> "error"]>>]
  IN IF q.attempt < MAX_COLLISION_RETRIES - 1
     THEN [c EXCEPT !.attempt = @ + 1]
     ELSE CreateRaises(c, RaisedFor(fault), ExcMessage(RaisedFor(fault)))

\* The invocation after a put_item of short_id that raised fault, which is
\* not the conditional check failure: create_url_mapping raises what
\* _handle_client_error makes of it, the except clause of line 198 does not
\* match, and the exception leaves create_short_url_with_retry.
OnStoreError(q, short_id, fault) ==
  [CreateRaises(q, RaisedFor(fault), ExcMessage(RaisedFor(fault)))
     EXCEPT !.short_id = short_id,
            !.puts = @ \o <<[code |-> short_id, result |-> "error"]>>]

\* The attempt's put_item raises something other than the conditional
\* check failure; create_short_url_with_retry lets it through.
AttemptStoreFails(r) ==
  /\ req[r].pc = "attempt"
  /\ \E short_id \in AttemptCodes(req[r].long_url, req[r].custom_suffix, req[r].attempt),
        fault \in Faults :
       req' = [req EXCEPT ![r] = OnStoreError(req[r], short_id, fault)]
  /\ UNCHANGED <<now, table, started, probe>>

ItemToInsertRecomputed(q, short_id, t) ==
  NewItem(short_id, q.long_url, calculate_expiry_date(DEFAULT_EXPIRY_DAYS, t),
          TtlOf(calculate_expiry_date(DEFAULT_EXPIRY_DAYS, t)), t)

\* create_short_url_with_retry, lines 187-193: the item the attempt asks
\* create_url_mapping to insert, with the expiry computed before the loop.
ItemToInsert(q, short_id, t) ==
  NewItem(short_id, q.long_url, q.expiry_date, q.ttl_timestamp, t)

\* One pass of the loop of create_short_url_with_retry whose put_item is
\* answered by the store: the insert, or the conflict and what follows it.
Attempt(r) ==
  /\ req[r].pc = "attempt"
  /\ \E short_id \in AttemptCodes(req[r].long_url, req[r].custom_suffix, req[r].attempt) :
       LET item == ItemToInsert(req[r], short_id, now)
       IN IF PutRefused(table, item)
          THEN /\ table' = table
               /\ req' = [req EXCEPT ![r] = OnConflict(req[r], short_id)]
          ELSE /\ table' = PutItem(table, item)
               /\ req' = [req EXCEPT ![r] = OnInserted(req[r], short_id, item)]
  /\ UNCHANGED <<now, started, probe>>

\* ------------------------------------------------------------- resolve
\* redirectURL.lambda_handler, lines 38-41: the short id is read from the path.
StartResolve(r, short_id) ==
  /\ LowestFree(r)
  /\ started < MaxRequests
  /\ started' = started + 1
  /\ LET q == [IdleReq EXCEPT !.op = "resolve", !.short_id = short_id]
     IN req' = [req EXCEPT ![r] =
          IF Len(short_id) = 0
          THEN RedirectRaises(q, "ValidationError", "Missing short URL identifier")
          ELSE [q EXCEPT !.pc = "get"]]
  /\ UNCHANGED <<now, table, probe>>

\* get_url_by_short_id fails: get_item raises.
ResolveGetFails(r) ==
  /\ req[r].pc = "get"
  /\ \E fault \in Faults :
       req' = [req EXCEPT ![r] =
                 RedirectRaises(req[r], RaisedFor(fault), ExcMessage(RaisedFor(fault)))]
  /\ UNCHANGED <<now, table, started, probe>>

\* lambda_handler, lines 46-57.
NotFoundResponse(short_id) ==
  [status |-> HTTP_STATUS_NOT_FOUND, error |-> "URL not found", shortId |-> short_id]

\* lambda_handler, lines 63-75.
GoneResponse(short_id, expiry_date) ==
  [status |-> HTTP_STATUS_GONE, error |-> "URL expired", shortId |-> short_id,
   expiredAt |-> expiry_date]

\* create_redirect_response(location)
create_redirect_response(location) == [status |-> HTTP_STATUS_FOUND, location |-> location]

\* lambda_handler, lines 44-75: the lookup, and the answer for a missing or
\* an expired mapping.
ResolveGet(r) ==
  /\ req[r].pc = "get"
  /\ LET item == GetItem(table, req[r].short_id)
         expiry_date == Attr(item, "expiryDate", NoText)
     IN req' = [req EXCEPT ![r] =
          IF ~IsItem(item)
          THEN Finish(req[r], NotFoundResponse(req[r].short_id))
          ELSE IF is_expired(expiry_date, now)
               THEN [Finish(req[r], GoneResponse(req[r].short_id, expiry_date))
                       EXCEPT !.found = item]
               ELSE [req[r] EXCEPT !.pc = "click", !.found = item,
                                   !.long_url = Attr(item, "longUrl", NoUrl)]]
  /\ UNCHANGED <<now, table, started, probe>>

\* lambda_handler, lines 78-87, with update_click_count succeeding.
ResolveClick(r) ==
  /\ req[r].pc = "click"
  /\ Attr(GetItem(table, req[r].short_id), "clickCount", 0) < MaxClicks
  /\ table' = PutItem(table, UpdatedItem(table, req[r].short_id, get_current_timestamp(now)))
  /\ req' = [req EXCEPT ![r] =
               [Finish(req[r], create_redirect_response(req[r].long_url))
                  EXCEPT !.clicks = @ + 1]]
  /\ UNCHANGED <<now, started, probe>>

\* lambda_handler, lines 78-87, with update_item raising: a ClientError is
\* caught by update_click_count, anything else reaches the handler.
ResolveClickFails(r) ==
  /\ req[r].pc = "click"
  /\ \E fault \in Faults :
       req' = [req EXCEPT ![r] =
          [(IF fault \in ClientErrorCodes
            THEN Finish(req[r], create_redirect_response(req[r].long_url))
            ELSE RedirectRaises(req[r], "Exception", "update_item"))
             EXCEPT !.clicks = @ + 1]]
  /\ UNCHANGED <<now, table, started, probe>>

\* --------------------------------------------------------- environment
\* The clock moves on.  An invocation ends within the timeout of the
\* function: while one is in flight the clock does not advance by a day.
Tick ==
  /\ \E t \in Instants :
       /\ t > now
       /\ (\E r \in Reqs : ~Free(r)) => t - now < DayTicks
       /\ now' = t
  /\ UNCHANGED <<table, req, started, probe>>

\* delete_url_mapping(short_id), called by an administrator.
delete_url_mapping(short_id) ==
  /\ short_id \in DOMAIN table
  /\ table' = DeleteItem(table, short_id)
  /\ UNCHANGED <<now, req, started, probe>>

\* The store's passive sweep: an item whose ttlTimestamp has passed is
\* removed at some later time.
TtlSweep(short_id) ==
  /\ short_id \in DOMAIN table
  /\ "ttlTimestamp" \in DOMAIN table[short_id]
  /\ table[short_id].ttlTimestamp < EpochSeconds(now)
  /\ table' = DeleteItem(table, short_id)
  /\ UNCHANGED <<now, req, started, probe>>

Next ==
  \/ \E r \in Reqs, url \in UrlInputs, suffix \in SuffixInputs : StartCreate(r, url, suffix)
  \/ \E r \in Reqs, body \in BadBodies : StartCreateBadBody(r, body)
  \/ \E r \in Reqs : FindExistingFails(r)
  \/ \E r \in Reqs : FindExisting(r)
  \/ \E r \in Reqs : AttemptInvalidSuffix(r)
  \/ \E r \in Reqs : AttemptStoreFails(r)
  \/ \E r \in Reqs : Attempt(r)
  \/ \E r \in Reqs, short_id \in Codes \cup {NoCode} : StartResolve(r, short_id)
  \/ \E r \in Reqs : ResolveGetFails(r)
  \/ \E r \in Reqs : ResolveGet(r)
  \/ \E r \in Reqs : ResolveClick(r)
  \/ \E r \in Reqs : ResolveClickFails(r)
  \/ Tick
  \/ \E short_id \in Codes : delete_url_mapping(short_id)
  \/ \E short_id \in Codes : TtlSweep(short_id)

Spec == Init /\ [][Next]_vars

\* The redirect handler on a table that holds a mapping an earlier
\* create-or-get stored at instant 0: the invocations are resolves.
StoredInit ==
  /\ now = 0
  /\ table = [k \in {CodeG1} |->
               NewItem(CodeG1, UrlA, calculate_expiry_date(DEFAULT_EXPIRY_DAYS, 0),
                       TtlOf(calculate_expiry_date(DEFAULT_EXPIRY_DAYS, 0)), 0)]
  /\ req = [r \in Reqs |-> IdleReq]
  /\ started = 0
  /\ probe = NoProbe

ResolveNext ==
  \/ \E r \in Reqs, short_id \in Codes \cup {NoCode} : StartResolve(r, short_id)
  \/ \E r \in Reqs : ResolveGetFails(r)
  \/ \E r \in Reqs : ResolveGet(r)
  \/ \E r \in Reqs : ResolveClick(r)
  \/ \E r \in Reqs : ResolveClickFails(r)
  \/ Tick
  \/ \E short_id \in Codes : delete_url_mapping(short_id)
  \/ \E short_id \in Codes : TtlSweep(short_id)

ResolveSpec == StoredInit /\ [][ResolveNext]_vars

\* The create-or-get handler alone: the invocations are creates of valid
\* long URLs, with no suffix, a valid one or a malformed one.
RetryUrls == {UrlA, UrlB}
RetrySuffixes == {NoCode, MyLink, TooShort}

CreateNext ==
  \/ \E r \in Reqs, url \in RetryUrls, suffix \in RetrySuffixes : StartCreate(r, url, suffix)
  \/ \E r \in Reqs : FindExistingFails(r)
  \/ \E r \in Reqs : FindExisting(r)
  \/ \E r \in Reqs : AttemptInvalidSuffix(r)
  \/ \E r \in Reqs : AttemptStoreFails(r)
  \/ \E r \in Reqs : Attempt(r)
  \/ Tick
  \/ \E short_id \in Codes : delete_url_mapping(short_id)
  \/ \E short_id \in Codes : TtlSweep(short_id)

\* An invocation that is in the loop of create_short_url_with_retry goes on
\* with it: the store answers or fails each put_item.
FairSpec ==
  /\ Init /\ [][CreateNext]_vars
  /\ \A r \in Reqs : WF_vars(Attempt(r) \/ AttemptStoreFails(r) \/ AttemptInvalidSuffix(r))

\* ------------------------------------------- is_expired called directly
ProbeInstants == 0 .. MaxProbeTime

\* What can follow the time in a text: nothing, Z, a numeric offset, or a
\* numeric offset and then Z.
TzForms ==
  LET offsets == {[sign |-> sg, off |-> o] : sg \in {"+", "-"}, o \in 0 .. MaxOffset}
  IN {<<>>, <<ZMarker>>} \cup {<<f>> : f \in offsets} \cup {<<f, ZMarker>> : f \in offsets}

\* The arguments is_expired is called with: None, "", a text that is no
\* date, and date-time texts with a 'T' or a space between date and time.
ExpiryTexts ==
  {NoText, EmptyText, NotADate}
    \cup {[kind |-> "iso", local |-> l, hasT |-> h, tz |-> z] :
            l \in ProbeInstants, h \in BOOLEAN, z \in TzForms}

ExpiryInit ==
  /\ now \in ProbeInstants
  /\ table = [k \in {} |-> NoItem]
  /\ req = [r \in Reqs |-> IdleReq]
  /\ started = 0
  /\ probe \in {[fn |-> "is_expired", arg |-> e, pc |-> "call", result |-> FALSE] :
                  e \in ExpiryTexts}

\* is_expired(arg) is called at the current instant and returns.
IsExpiredCall ==
  /\ probe.fn = "is_expired" /\ probe.pc = "call"
  /\ probe' = [probe EXCEPT !.pc = "returned", !.result = is_expired(probe.arg, now)]
  /\ UNCHANGED <<now, table, req, started>>

ExpiryNext == IsExpiredCall

ExpirySpec == ExpiryInit /\ [][ExpiryNext]_vars

\* --------------------------- the scan of find_existing_url called directly
\* The key of the candidate at each place of the list.
CandidateKeys == <<CodeG1, CodeG2, MyLink>>

\* The items the query can list for a long URL: with an expiryDate, or
\* without the attribute.
Candidates(i) ==
  {[shortId |-> CandidateKeys[i], longUrl |-> UrlA, expiryDate |-> IsoUtc(l)] :
      l \in ProbeInstants}
    \cup {[shortId |-> CandidateKeys[i], longUrl |-> UrlA]}

\* The lists response.get('Items', []) can be.
CandidateLists ==
  UNION {{q \in [1 .. n -> UNION {Candidates(i) : i \in 1 .. n}] :
            \A i \in 1 .. n : q[i] \in Candidates(i)} : n \in 0 .. MaxCandidates}

ScanInit ==
  /\ now \in ProbeInstants
  /\ table = [k \in {} |-> NoItem]
  /\ req = [r \in Reqs |-> IdleReq]
  /\ started = 0
  /\ probe \in {[fn |-> "find_existing_url", items |-> q, pc |-> "call", result |-> NoItem] :
                  q \in CandidateLists}

\* find_existing_url, lines 111-118, run on the items the query listed.
FindExistingScan ==
  /\ probe.fn = "find_existing_url" /\ probe.pc = "call"
  /\ probe' = [probe EXCEPT !.pc = "returned", !.result = FirstAlive(probe.items, now)]
  /\ UNCHANGED <<now, table, req, started>>

ScanNext == FindExistingScan

ScanSpec == ScanInit /\ [][ScanNext]_vars

\* ------------------------------------ generate_short_url called directly
\* The bytes a digest is sampled from.
ByteSamples == {0, 105, 251, 255}

\* The SHA-256 digests of the sample, as far as the generator reads them.
Digests ==
  {[i \in 1 .. (EXTENDED_HASH_LENGTH \div 2) |-> IF i <= MaxDigestBytes THEN d[i] ELSE 0] :
     d \in [1 .. MaxDigestBytes -> ByteSamples]}

ZeroDigest == [i \in 1 .. (EXTENDED_HASH_LENGTH \div 2) |-> 0]

\* Suffixes of the least and greatest valid length, and one character more.
SuffixMin == [i \in 1 .. CUSTOM_SUFFIX_MIN_LENGTH |-> "a"]
SuffixMax == [i \in 1 .. CUSTOM_SUFFIX_MAX_LENGTH |-> "Z"]
SuffixTooLong == [i \in 1 .. (CUSTOM_SUFFIX_MAX_LENGTH + 1) |-> "a"]

\* The custom_suffix arguments of the sample that are strings.
SuffixTexts ==
  {<<>>, TooShort, SuffixMin, MyLink, CodeG1, SuffixMax, SuffixTooLong,
   <<"c","u","s","t","o","m","@","1","2","3">>, <<" ">>, <<" "," "," ">>,
   <<"a"," ","b","c">>, <<"a","b","c","\n">>, <<"a","b","\n","c">>, <<"a","b","c","\t">>}

\* A call generate_short_url(long_url, custom_suffix): given says whether
\* custom_suffix is a string or None; hash_bytes is the digest the call
\* computes if it gets that far.
GenerateInit ==
  /\ now = 0
  /\ table = [k \in {} |-> NoItem]
  /\ req = [r \in Reqs |-> IdleReq]
  /\ started = 0
  /\ probe \in
       {[fn |-> "generate_short_url", long_url |-> u, given |-> TRUE, custom_suffix |-> x,
         hash_bytes |-> (IF Len(x) > 0 THEN ZeroDigest ELSE d),
         pc |-> "call", result |-> NoCode] :
            u \in {UrlA, UrlB}, x \in SuffixTexts, d \in Digests}
       \cup {[fn |-> "generate_short_url", long_url |-> u, given |-> FALSE,
              custom_suffix |-> NoCode, hash_bytes |-> d, pc |-> "call", result |-> NoCode] :
            u \in {UrlA, UrlB}, d \in Digests}

\* The results of the call: those of generate_short_url, the generated
\* code being the one made of the call's digest.
GenerateResults(p) ==
  IF Len(p.custom_suffix) > 0
  THEN generate_short_url(p.long_url, p.custom_suffix)
  ELSE {ShortCodeOfDigest(p.hash_bytes)}

\* The call returns a code.
GenerateReturns ==
  /\ probe.fn = "generate_short_url" /\ probe.pc = "call"
  /\ \E code \in GenerateResults(probe) :
       probe' = [probe EXCEPT !.pc = "returned", !.result = code]
  /\ UNCHANGED <<now, table, req, started>>

\* The call raises ValueError.
GenerateRaises ==
  /\ probe.fn = "generate_short_url" /\ probe.pc = "call"
  /\ GenerateResults(probe) = {}
  /\ probe' = [probe EXCEPT !.pc = "raised"]
  /\ UNCHANGED <<now, table, req, started>>

GenerateNext == GenerateReturns \/ GenerateRaises

GenerateSpec == GenerateInit /\ [][GenerateNext]_vars

\* --------------------------------- calculate_expiry_date called directly
\* A call calculate_expiry_date(days), or calculate_expiry_date() when
\* given is false: days is then the default of the parameter.
CalcInit ==
  /\ now \in ProbeInstants
  /\ table = [k \in {} |-> NoItem]
  /\ req = [r \in Reqs |-> IdleReq]
  /\ started = 0
  /\ probe \in
       {[fn |-> "calculate_expiry_date", given |-> TRUE, days |-> d, pc |-> "call",
         result |-> NoText] : d \in (0 - MaxDays) .. MaxDays}
       \cup {[fn |-> "calculate_expiry_date", given |-> FALSE, days |-> DEFAULT_EXPIRY_DAYS,
              pc |-> "call", result |-> NoText]}

\* The call returns the expiry text.
CalcReturns ==
  /\ probe.fn = "calculate_expiry_date" /\ probe.pc = "call"
  /\ ~DaysRejected(probe.days)
  /\ probe' = [probe EXCEPT !.pc = "returned",
                            !.result = calculate_expiry_date(probe.days, now)]
  /\ UNCHANGED <<now, table, req, started>>

\* The call raises ValueError.
CalcRaises ==
  /\ probe.fn = "calculate_expiry_date" /\ probe.pc = "call"
  /\ DaysRejected(probe.days)
  /\ probe' = [probe EXCEPT !.pc = "raised"]
  /\ UNCHANGED <<now, table, req, started>>

CalcNext == CalcReturns \/ CalcRaises

CalcSpec == CalcInit /\ [][CalcNext]_vars

\* ------------------------------- extract_path_parameters called directly
\* Path segments.
Stage == <<"s","t","a","g","e">>
Tenant == <<"t","e","n","a","n","t">>
Prod == <<"p","r","o","d">>
Acme == <<"a","c","m","e">>
Shorten == <<"s","h","o","r","t","e","n">>
PathParts == {Stage, Tenant, Prod, Acme, Shorten, CodeG1, MyLink}

\* proxy_path.split('/') without its empty parts, for the proxy paths of
\* the sample.
ProxyPaths == UNION {[1 .. n -> PathParts] : n \in 0 .. MaxPathParts}

\* extract_path_parameters(event): p.short_id_param is
\* pathParameters['shortId'] (NoCode when absent), p.has_proxy says whether
\* pathParameters has 'proxy', p.proxy is the list of its segments.
extract_path_parameters(p) ==
  LET path_parts == p.proxy
      direct == [short_id |-> p.short_id_param, stage |-> NoCode, tenant |-> NoCode]
  IN IF ~p.has_proxy THEN direct
     ELSE IF Len(path_parts) >= 4
     THEN IF path_parts[1] = Stage /\ path_parts[3] = Tenant
          THEN [short_id |-> IF Len(path_parts) > 4
                             THEN IF path_parts[Len(path_parts)] # Shorten
                                  THEN path_parts[Len(path_parts)] ELSE NoCode
                             ELSE p.short_id_param,
                stage |-> path_parts[2], tenant |-> path_parts[4]]
          ELSE direct
     ELSE IF Len(path_parts) = 1
          THEN [direct EXCEPT !.short_id = path_parts[1]]
          ELSE direct

PathInit ==
  /\ now = 0
  /\ table = [k \in {} |-> NoItem]
  /\ req = [r \in Reqs |-> IdleReq]
  /\ started = 0
  /\ probe \in
       {[fn |-> "extract_path_parameters", short_id_param |-> x, has_proxy |-> TRUE,
         proxy |-> path, pc |-> "call",
         result |-> [short_id |-> NoCode, stage |-> NoCode, tenant |-> NoCode]] :
            x \in {NoCode, CodeG2}, path \in ProxyPaths}
       \cup {[fn |-> "extract_path_parameters", short_id_param |-> x, has_proxy |-> FALSE,
              proxy |-> <<>>, pc |-> "call",
              result |-> [short_id |-> NoCode, stage |-> NoCode, tenant |-> NoCode]] :
            x \in {NoCode, CodeG2}}

\* The call returns (short_id, stage, tenant).
ExtractPathCall ==
  /\ probe.fn = "extract_path_parameters" /\ probe.pc = "call"
  /\ probe' = [probe EXCEPT !.pc = "returned", !.result = extract_path_parameters(probe)]
  /\ UNCHANGED <<now, table, req, started>>

PathNext == ExtractPathCall

PathSpec == PathInit /\ [][PathNext]_vars

\* =============================================================== claims
\* Helpers of the formulas below.
Last(seq) == seq[Len(seq)]
OkCount(puts) == Cardinality({i \in 1 .. Len(puts) : puts[i].result = "ok"})
\* Invocation r takes a step.
Moves(r) == req'[r] # req[r]
\* Invocation r issues a conditional insert in this step.
PutStep(r) == req[r].pc = "attempt" /\ Len(req'[r].puts) = Len(req[r].puts) + 1
ExhaustionMessage == "Unable to generate unique short URL after multiple attempts"

\* C1: a run of create_short_url_with_retry without custom suffix whose
\* inserts were refused on the first k attempts (k = 0, 1, 2) and accepted on
\* attempt k+1 has issued exactly k+1 inserts and has returned at once: no
\* error, and the response and short_id carry the code of attempt k+1.
C1_RetryThenSuccess ==
  \A r \in Reqs :
    LET q == req[r] IN
    (/\ q.op = "create" /\ q.custom_suffix = NoCode
     /\ Len(q.puts) > 0 /\ Last(q.puts).result = "ok"
     /\ \A i \in 1 .. Len(q.puts) - 1 : q.puts[i].result = "exists")
    => /\ q.pc = "done"
       /\ Len(q.puts) = q.attempt + 1
       /\ Len(q.puts) <= MAX_COLLISION_RETRIES
       /\ q.exc = NoExc
       /\ q.resp.status = HTTP_STATUS_CREATED
       /\ q.resp.created
       /\ q.resp.shortId = Last(q.puts).code
       /\ q.short_id = Last(q.puts).code
       /\ q.resp.expiryDate = q.expiry_date

\* C1 witness: two refused inserts, then the third accepted.
C1_Witness ==
  \E r \in Reqs :
    /\ req[r].op = "create" /\ req[r].custom_suffix = NoCode
    /\ Len(req[r].puts) = 3
    /\ req[r].puts[1].result = "exists" /\ req[r].puts[2].result = "exists"
    /\ req[r].puts[3].result = "ok"
    /\ req[r].puts[3].code # req[r].puts[2].code
    /\ req[r].resp.status = HTTP_STATUS_CREATED

\* C2: a run with a valid custom suffix whose first insert is refused issues
\* exactly one insert, that of the suffix itself, and surfaces ConflictError
\* (HTTP 409); no generated code is tried.
C2_CustomConflictNoRetry ==
  \A r \in Reqs :
    LET q == req[r] IN
    (/\ q.op = "create" /\ is_valid_custom_suffix(q.custom_suffix)
     /\ Len(q.puts) > 0 /\ q.puts[1].result = "exists")
    => /\ q.pc = "done"
       /\ Len(q.puts) = 1
       /\ q.puts[1].code = q.custom_suffix
       /\ q.exc.type = "ConflictError"
       /\ q.resp.status = HTTP_STATUS_CONFLICT

\* C2 witness: the suffix "my-link" was refused.
C2_Witness ==
  \E r \in Reqs :
    /\ req[r].op = "create" /\ req[r].custom_suffix = MyLink
    /\ req[r].puts = <<[code |-> MyLink, result |-> "exists"]>>
    /\ req[r].resp.status = HTTP_STATUS_CONFLICT

\* C3: a run without custom suffix whose three inserts are all refused has
\* issued exactly three inserts and has failed with the exhaustion error; it
\* returns no mapping, and no run ever issues a fourth insert.
C3_Exhaustion ==
  \A r \in Reqs :
    LET q == req[r] IN
    /\ q.op = "create" => Len(q.puts) <= MAX_COLLISION_RETRIES
    /\ (/\ q.op = "create" /\ q.custom_suffix = NoCode
        /\ Len(q.puts) >= MAX_COLLISION_RETRIES
        /\ \A i \in 1 .. MAX_COLLISION_RETRIES : q.puts[i].result = "exists")
       => /\ q.pc = "done"
          /\ Len(q.puts) = MAX_COLLISION_RETRIES
          /\ q.exc = [type |-> "DatabaseError", message |-> ExhaustionMessage]
          /\ q.resp.status = HTTP_STATUS_INTERNAL_ERROR
          /\ OkCount(q.puts) = 0

\* C3 witness: three refused inserts.
C3_Witness ==
  \E r \in Reqs :
    /\ req[r].op = "create" /\ req[r].custom_suffix = NoCode
    /\ Len(req[r].puts) = 3
    /\ \A i \in 1 .. 3 : req[r].puts[i].result = "exists"
    /\ req[r].pc = "done"

\* C4: a conditional insert of a code whose key is taken changes nothing in
\* the table and is never reported as stored; the run then fails with
\* ConflictError (custom suffix) or goes on to its next attempt (generated
\* code).  An insert is accepted only on a free key, and then stores the
\* run's record and touches no other key.  So of two runs racing for one
\* code one stores its record and the other cannot overwrite it.
C4_AtomicInsert ==
  [][\A r \in Reqs :
       PutStep(r) =>
         LET e == Last(req'[r].puts) IN
         /\ e.result = "exists" => e.code \in DOMAIN table
         /\ IF e.code \in DOMAIN table
            THEN /\ table' = table
                 /\ e.result # "ok"
                 /\ e.result = "exists" =>
                      IF Len(req[r].custom_suffix) > 0
                      THEN /\ req'[r].pc = "done"
                           /\ req'[r].exc.type = "ConflictError"
                      ELSE req[r].attempt < MAX_COLLISION_RETRIES - 1 =>
                             /\ req'[r].pc = "attempt"
                             /\ req'[r].attempt = req[r].attempt + 1
            ELSE e.result = "ok" =>
                   /\ DOMAIN table' = DOMAIN table \cup {e.code}
                   /\ table'[e.code].longUrl = req[r].long_url
                   /\ table'[e.code].expiryDate = req[r].expiry_date
                   /\ \A k \in DOMAIN table : table'[k] = table[k]]_vars

\* C4 witness: two runs for the same long URL generated the same code; one
\* stored it, the other was refused and is on its second attempt.
C4_Witness ==
  \E r1, r2 \in Reqs :
    /\ r1 # r2
    /\ req[r1].op = "create" /\ req[r2].op = "create"
    /\ req[r1].long_url = req[r2].long_url
    /\ req[r1].custom_suffix = NoCode /\ req[r2].custom_suffix = NoCode
    /\ Len(req[r1].puts) > 0 /\ Last(req[r1].puts).result = "ok"
    /\ req[r2].puts = <<[code |-> Last(req[r1].puts).code, result |-> "exists"]>>
    /\ req[r2].pc = "attempt" /\ req[r2].attempt = 1
    /\ Last(req[r1].puts).code \in DOMAIN table

ImmutableAttrs == {"longUrl", "createdAt", "expiryDate", "ttlTimestamp"}

\* C5: while a record exists under a shortId, no step changes, adds or
\* removes its longUrl, createdAt, expiryDate or ttlTimestamp.
C5_ImmutableFields ==
  [][\A k \in DOMAIN table \cap DOMAIN table' :
       \A a \in ImmutableAttrs :
         /\ (a \in DOMAIN table[k]) <=> (a \in DOMAIN table'[k])
         /\ a \in DOMAIN table[k] => table'[k][a] = table[k][a]]_vars

\* C5 witness: a created record whose click counter was updated at a later
\* instant than its creation.
C5_Witness ==
  \E k \in DOMAIN table :
    /\ ImmutableAttrs \subseteq DOMAIN table[k]
    /\ "lastAccessedAt" \in DOMAIN table[k]
    /\ table[k].clickCount >= 1
    /\ table[k].lastAccessedAt # table[k].createdAt

\* C6: the step that ends a create run in success adds exactly one record,
\* the one returned, under a key that was free, and it is the run's only
\* accepted insert; every other step of a create run (a refused insert, a
\* store failure, a validation failure, the conflict or exhaustion that ends
\* it) leaves the table as it was, and the run has no accepted insert.
C6_OneRecordPerSuccess ==
  [][\A r \in Reqs :
       (req[r].op = "create" /\ req[r].pc \in {"dedup", "attempt"} /\ Moves(r)) =>
         IF req'[r].pc = "done" /\ req'[r].resp.status = HTTP_STATUS_CREATED
         THEN LET k == req'[r].resp.shortId IN
              /\ k \notin DOMAIN table
              /\ DOMAIN table' = DOMAIN table \cup {k}
              /\ \A o \in DOMAIN table : table'[o] = table[o]
              /\ table'[k].shortId = k
              /\ table'[k].longUrl = req'[r].resp.longUrl
              /\ table'[k].expiryDate = req'[r].resp.expiryDate
              /\ OkCount(req'[r].puts) = 1
         ELSE /\ table' = table
              /\ OkCount(req'[r].puts) = 0]_vars

\* C6 witness: a run that stored its record on its second attempt, after a
\* refused insert that changed nothing.
C6_Witness ==
  \E r \in Reqs :
    /\ req[r].op = "create" /\ req[r].resp.status = HTTP_STATUS_CREATED
    /\ Len(req[r].puts) = 2 /\ req[r].puts[1].result = "exists"
    /\ req[r].resp.shortId \in DOMAIN table
    /\ req[r].puts[1].code \in DOMAIN table

\* The records of long_url in tbl that the expiry evaluator calls alive at t.
AliveFor(tbl, long_url, t) ==
  {k \in DOMAIN tbl :
     /\ "longUrl" \in DOMAIN tbl[k] /\ tbl[k].longUrl = long_url
     /\ ~is_expired(Attr(tbl[k], "expiryDate", EmptyText), t)}

\* C7: when the dedup query of createOrGet is answered and the long URL has
\* a stored mapping that is alive, the request answers 200 with that
\* mapping's shortId, longUrl and expiryDate and created = false, issues no
\* insert and leaves the table unchanged; and a request answers 201 with
\* created = true exactly when its step inserted a record.
C7_ReusesAliveMapping ==
  [][\A r \in Reqs :
       /\ (/\ req[r].op = "create" /\ req[r].pc = "dedup" /\ Moves(r)
           /\ req'[r].exc = NoExc
           /\ AliveFor(table, req[r].long_url, now) # {})
          => /\ req'[r].pc = "done"
             /\ req'[r].resp.status = HTTP_STATUS_OK
             /\ ~req'[r].resp.created
             /\ req'[r].resp.shortId \in AliveFor(table, req[r].long_url, now)
             /\ req'[r].resp.longUrl = req[r].long_url
             /\ req'[r].resp.expiryDate = table[req'[r].resp.shortId].expiryDate
             /\ req'[r].puts = <<>>
             /\ table' = table
       /\ (/\ req[r].op = "create" /\ req[r].pc \in {"dedup", "attempt"} /\ Moves(r)
           /\ req'[r].pc = "done")
          => ((req'[r].resp.status = HTTP_STATUS_CREATED) <=> (table' # table))]_vars

\* The dedup lookup counts the record under key k as alive at t: the query
\* lists it and the scan of the results does not skip it.
DedupAlive(tbl, k, t) ==
  /\ "longUrl" \in DOMAIN tbl[k]
  /\ tbl[k] \in QueryItems(tbl, tbl[k].longUrl, t)
  /\ ~is_expired(Attr(tbl[k], "expiryDate", EmptyText), t)

\* The redirect handler counts the record under key k as alive at t.
ResolveAlive(tbl, k, t) == ~is_expired(Attr(tbl[k], "expiryDate", NoText), t)

\* C8: at every instant, for every stored mapping, the dedup lookup and the
\* resolve path agree on whether the mapping is alive.
C8_SameAliveness ==
  \A k \in DOMAIN table :
    "longUrl" \in DOMAIN table[k] =>
      (DedupAlive(table, k, now) <=> ResolveAlive(table, k, now))

\* The record's expiryDate, as written by the create path, lies before t.
ExpiryInPast(item, t) ==
  /\ "expiryDate" \in DOMAIN item
  /\ item.expiryDate.kind = "iso"
  /\ item.expiryDate.tz = <<UtcOffset>>
  /\ item.expiryDate.local < t

C10_ResolveOutcomes ==
  [][\A r \in Reqs :
       /\ (/\ req[r].op = "resolve" /\ req[r].pc = "get" /\ Moves(r)
           /\ req'[r].exc = NoExc
           /\ req[r].short_id \notin DOMAIN table)
          => /\ req'[r].pc = "done"
             /\ req'[r].resp.status = HTTP_STATUS_NOT_FOUND
             /\ req'[r].clicks = 0
             /\ table' = table
       /\ (req[r].op = "resolve" /\ req[r].pc = "click" /\ Moves(r))
          => /\ req'[r].pc = "done"
             /\ req'[r].clicks = 1
             /\ req'[r].resp.status = HTTP_STATUS_FOUND
             /\ req'[r].resp.location = req[r].found.longUrl]_vars

\* C11: when resolve found an alive mapping, the step that attempts the
\* click-count update ends the request with the 302 redirect to the mapping's
\* longUrl and with no exception reaching the handler, however the update
\* fails.
C11_CounterFailureHarmless ==
  [][\A r \in Reqs :
       (req[r].op = "resolve" /\ req[r].pc = "click" /\ Moves(r))
       => /\ req'[r].pc = "done"
          /\ req'[r].exc = NoExc
          /\ req'[r].resp = create_redirect_response(req[r].found.longUrl)]_vars

\* The record is past its logical expiry at t.
LogicallyExpired(item, t) == is_expired(Attr(item, "expiryDate", NoText), t)

\* C12: the dedup lookup never returns a logically-expired record, and an
\* insert whose candidate code is held by a logically-expired record that is
\* still stored ends as it would on a free key: the insert is accepted and
\* the request answers 201 with that code.
C12_ExpiredIsAbsent ==
  [][\A r \in Reqs :
       /\ (/\ req[r].op = "create" /\ req[r].pc = "dedup" /\ Moves(r)
           /\ IsItem(req'[r].found))
          => ~LogicallyExpired(req'[r].found, now)
       /\ (/\ PutStep(r)
           /\ Last(req'[r].puts).result # "error"
           /\ Last(req'[r].puts).code \in DOMAIN table
           /\ LogicallyExpired(table[Last(req'[r].puts).code], now))
          => /\ Last(req'[r].puts).result = "ok"
             /\ req'[r].pc = "done"
             /\ req'[r].resp.status = HTTP_STATUS_CREATED
             /\ req'[r].resp.shortId = Last(req'[r].puts).code]_vars

\* The suffix is present and malformed.
MalformedSuffix(suffix) ==
  /\ Len(suffix) > 0
  /\ \/ Len(suffix) < CUSTOM_SUFFIX_MIN_LENGTH
     \/ Len(suffix) > CUSTOM_SUFFIX_MAX_LENGTH
     \/ \E i \in 1 .. Len(suffix) : suffix[i] \notin SuffixAlphabet

\* The exception classes a failing store call ends in.
StoreFailureClasses == {RaisedFor(fault) : fault \in Faults}

\* C13: a createOrGet with a malformed custom suffix, whatever the table
\* holds, answers 400 and has issued no insert (unless a store call failed).
C13_MalformedSuffixIs400 ==
  \A r \in Reqs :
    (/\ req[r].op = "create" /\ req[r].pc = "done"
     /\ MalformedSuffix(req[r].custom_suffix)
     /\ req[r].exc.type \notin StoreFailureClasses)
    => /\ req[r].resp.status = HTTP_STATUS_BAD_REQUEST
       /\ req[r].puts = <<>>

\* The longUrl field is missing, empty, too long, or not a valid URL.
BadLongUrl(url) ==
  \/ url.len = 0
  \/ url.len > MAX_URL_LENGTH
  \/ url.private
  \/ ~url.shape

\* C14: the step that starts a createOrGet whose body is an object and whose
\* longUrl is missing, empty, longer than 2048 characters or invalid ends it
\* with a ValidationError and 400, with no insert and the table unchanged;
\* and no createOrGet with such a longUrl is ever at the dedup query or at
\* an insert.
C14_BadUrlIs400 ==
  [][\A r \in Reqs :
       /\ (/\ started' = started + 1 /\ req'[r].op = "create" /\ Moves(r)
           /\ req'[r].body = "object"
           /\ BadLongUrl(req'[r].long_url))
          => /\ req'[r].pc = "done"
             /\ req'[r].exc.type = "ValidationError"
             /\ req'[r].resp.status = HTTP_STATUS_BAD_REQUEST
             /\ req'[r].puts = <<>>
             /\ req'[r].found = NoItem
             /\ table' = table
       /\ (req[r].op = "create" /\ req[r].pc \in {"dedup", "attempt"})
          => ~BadLongUrl(req[r].long_url)]_vars

\* C14 witness: a createOrGet with an over-long longUrl was answered 400
\* while the table holds a mapping.
C14_Witness ==
  \E r \in Reqs :
    /\ req[r].op = "create" /\ req[r].pc = "done"
    /\ req[r].long_url.len > MAX_URL_LENGTH
    /\ req[r].resp.status = HTTP_STATUS_BAD_REQUEST
    /\ DOMAIN table # {}

\* C15: an insert that fails with a store error other than "already exists"
\* ends create_short_url_with_retry with that failure propagated (no
\* ConflictError, no result), inserts nothing and is the run's last insert,
\* with or without a custom suffix; and an insert is followed by another
\* attempt only when it was refused as "already exists" on a generated code.
C15_StoreErrorNotRetried ==
  [][\A r \in Reqs :
       PutStep(r) =>
         /\ (Last(req'[r].puts).result = "error")
            => /\ req'[r].pc = "done"
               /\ req'[r].exc.type \in StoreFailureClasses
               /\ req'[r].resp.status = HTTP_STATUS_INTERNAL_ERROR
               /\ table' = table
         /\ (req'[r].pc = "attempt")
            => /\ Last(req'[r].puts).result = "exists"
               /\ req[r].custom_suffix = NoCode
               /\ req'[r].attempt = req[r].attempt + 1]_vars

\* C15 witness: a run without suffix ended by a store error at its second
\* insert, after one refusal.
C15_Witness ==
  \E r \in Reqs :
    /\ req[r].op = "create" /\ req[r].pc = "done" /\ req[r].custom_suffix = NoCode
    /\ Len(req[r].puts) = 2
    /\ req[r].puts[1].result = "exists" /\ req[r].puts[2].result = "error"
    /\ req[r].exc.type \in StoreFailureClasses

\* What the create-or-get handler answers when a store call fails.
StoreFailureOutcomes ==
  {CreateHandlerExcept(RaisedFor(fault), ExcMessage(RaisedFor(fault))) : fault \in Faults}

\* C16: the answer of a createOrGet that ended in a validation failure, in a
\* custom-suffix conflict or in exhaustion is none of the answers the
\* handler gives for a store failure.
C16_ErrorKindsDistinct ==
  \A r \in Reqs :
    (/\ req[r].op = "create" /\ req[r].pc = "done"
     /\ \/ req[r].exc.type = "ValidationError"
        \/ req[r].exc.type = "ConflictError"
        \/ req[r].exc.message = ExhaustionMessage)
    => req[r].resp \notin StoreFailureOutcomes

\* C17: when the lookup of resolve fails in the store, whatever the error,
\* the handler answers 500 "Service temporarily unavailable".
C17_LookupFailureUnavailable ==
  [][\A r \in Reqs :
       (/\ req[r].op = "resolve" /\ req[r].pc = "get" /\ Moves(r)
        /\ req'[r].exc # NoExc)
       => /\ req'[r].pc = "done"
          /\ req'[r].resp =
               ErrorResponse(HTTP_STATUS_INTERNAL_ERROR, "Service temporarily unavailable")]_vars

\* is_expired has returned for the text it was called with.
Returned == probe.fn = "is_expired" /\ probe.pc = "returned"

\* The text, as is_expired hands it to the parser, is parsed.
Parsed(e) == e.kind \notin {"none", "empty"} /\ IsoParses(NormalizeExpiryText(e))

\* C18: when is_expired parsed its argument, it returns true exactly when
\* the current instant is strictly greater than the parsed instant; at the
\* expiry instant itself it returns false.
C18_StrictlyAfter ==
  (Returned /\ Parsed(probe.arg))
  => LET expiry == IsoInstant(NormalizeExpiryText(probe.arg))
     IN /\ probe.result <=> (now > expiry)
        /\ (now = expiry) => ~probe.result

\* C18 witness: is_expired returned false at exactly the expiry instant of
\* a text with a non-zero offset.
C18_Witness ==
  /\ Returned /\ Parsed(probe.arg)
  /\ probe.arg.tz # <<>> /\ probe.arg.tz[1].off > 0
  /\ now = IsoInstant(NormalizeExpiryText(probe.arg))
  /\ ~probe.result

\* The documented forms: a date-time followed by Z, by one numeric offset
\* of either sign, or by nothing.
DocumentedForm(e) ==
  /\ e.kind = "iso"
  /\ \/ e.tz = <<>>
     \/ e.tz = <<ZMarker>>
     \/ Len(e.tz) = 1 /\ e.tz[1].sign \in {"+", "-"}

\* The UTC instant a text of a documented form denotes.
DenotedInstant(e) ==
  IF e.tz = <<>> \/ e.tz = <<ZMarker>> THEN e.local
  ELSE IF e.tz[1].sign = "+" THEN e.local - e.tz[1].off
       ELSE e.local + e.tz[1].off

\* C19: for a text of any documented form, is_expired returns false when
\* the instant the text denotes is in the future and true when it is in the
\* past.
C19_AcceptsDocumentedForms ==
  (Returned /\ DocumentedForm(probe.arg))
  => /\ (now < DenotedInstant(probe.arg)) => ~probe.result
     /\ (now > DenotedInstant(probe.arg)) => probe.result

\* The text cannot be an ISO instant: it is no date, or it carries both an
\* offset and a trailing Z.
NotAnInstant(e) == e.kind = "other" \/ (e.kind = "iso" /\ Len(e.tz) > 1)

\* C20: is_expired returns true for None, for "", and for every text that
\* is not an ISO instant.
C20_UnparseableIsExpired ==
  (/\ probe.fn = "is_expired" /\ probe.pc = "returned"
   /\ (probe.arg.kind \in {"none", "empty"} \/ NotAnInstant(probe.arg)))
  => probe.result

\* C20 witness: is_expired returned true for a text with an offset and a
\* trailing Z whose date-time lies after the current instant.
C20_Witness ==
  /\ Returned
  /\ probe.arg.kind = "iso" /\ Len(probe.arg.tz) > 1
  /\ probe.arg.local - MaxOffset > now
  /\ probe.result

\* The candidate is alive at t according to the expiry evaluator.
CandidateAlive(item, t) == ~is_expired(Attr(item, "expiryDate", EmptyText), t)

\* C21: the scan of find_existing_url returns the first item of the list,
\* in the order of the list, that is_expired reports alive, and None when
\* there is none; of two candidates, one with its expiryDate in the past and
\* one with it in the future, it returns the future one in either order.
C21_FirstAliveCandidate ==
  (probe.fn = "find_existing_url" /\ probe.pc = "returned")
  => LET items == probe.items
         alive == {i \in 1 .. Len(items) : CandidateAlive(items[i], now)}
     IN /\ (alive = {}) => probe.result = NoItem
        /\ \A i \in alive : (\A j \in alive : i <= j) => probe.result = items[i]
        /\ \A i, j \in 1 .. Len(items) :
             (/\ Len(items) = 2 /\ i # j
              /\ "expiryDate" \in DOMAIN items[i] /\ items[i].expiryDate.local < now
              /\ "expiryDate" \in DOMAIN items[j] /\ items[j].expiryDate.local > now)
             => probe.result = items[j]

\* C21 witness: the scan returned the second of two candidates, the first
\* being past its expiryDate.
C21_Witness ==
  /\ probe.fn = "find_existing_url" /\ probe.pc = "returned"
  /\ Len(probe.items) = 2
  /\ "expiryDate" \in DOMAIN probe.items[1] /\ probe.items[1].expiryDate.local < now
  /\ "expiryDate" \in DOMAIN probe.items[2] /\ probe.items[2].expiryDate.local > now
  /\ probe.result = probe.items[2]

\* The characters of the text are all of [A-Za-z0-9_-].
InSuffixAlphabet(text) == \A i \in 1 .. Len(text) : text[i] \in SuffixAlphabet

\* C22: every call of generate_short_url without a custom suffix returns a
\* code of exactly 6 characters of [A-Za-z0-9_-]; the base64 text of the
\* 8-byte digest prefix, and of the 12-byte one, has at least 6 characters
\* once its padding is removed.
C22_GeneratedCodeShape ==
  (probe.fn = "generate_short_url" /\ probe.pc # "call" /\ ~probe.given)
  => /\ probe.pc = "returned"
     /\ Len(probe.result) = SHORT_URL_LENGTH
     /\ InSuffixAlphabet(probe.result)
     /\ \A hex_length \in {HASH_TRUNCATE_LENGTH, EXTENDED_HASH_LENGTH} :
          Len(RemovePadding(urlsafe_b64encode(DigestPrefix(probe.hash_bytes, hex_length))))
            >= SHORT_URL_LENGTH

\* C22 witness: a generated code that begins with the two characters that
\* set the URL-safe alphabet apart.
C22_Witness ==
  /\ probe.fn = "generate_short_url" /\ probe.pc = "returned" /\ ~probe.given
  /\ probe.result[1] = "-" /\ probe.result[2] = "_"

C24_InvalidSuffixRaises ==
  /\ (/\ probe.fn = "generate_short_url" /\ probe.pc # "call" /\ probe.given
      /\ \/ Len(probe.custom_suffix) < CUSTOM_SUFFIX_MIN_LENGTH
         \/ Len(probe.custom_suffix) > CUSTOM_SUFFIX_MAX_LENGTH
         \/ ~InSuffixAlphabet(probe.custom_suffix))
     => probe.pc = "raised"
  /\ (probe.fn = "generate_short_url" /\ probe.pc # "call" /\ ~probe.given)
     => (probe.pc = "returned" /\ Len(probe.result) = SHORT_URL_LENGTH)

\* The text of the UTC instant that lies days days after t.
DaysAfter(t, days) ==
  [kind |-> "iso", local |-> t + days * SecondsPerDay * TicksPerSecond, hasT |-> TRUE,
   tz |-> <<UtcOffset>>]

\* C25: a call calculate_expiry_date(days) raises when days <= 0 and
\* otherwise returns the current UTC instant plus days days; without an
\* argument it returns the current UTC instant plus 60 days.
C25_ExpiryDateOfDays ==
  (probe.fn = "calculate_expiry_date" /\ probe.pc # "call")
  => /\ (probe.given /\ probe.days <= 0) => probe.pc = "raised"
     /\ (probe.given /\ probe.days > 0)
        => (probe.pc = "returned" /\ probe.result = DaysAfter(now, probe.days))
     /\ ~probe.given
        => (probe.pc = "returned" /\ probe.result = DaysAfter(now, DEFAULT_EXPIRY_DAYS))

\* C25 witness: a call with one day, after the first instant, returned.
C25_Witness ==
  /\ probe.fn = "calculate_expiry_date" /\ probe.pc = "returned"
  /\ probe.given /\ probe.days = 1 /\ now > 0
  /\ probe.result.local = now + DayTicks

\* C26: every record in the table carries longUrl, createdAt and
\* expiryDate, the attributes the conditional insert writes; none was
\* brought into existence by update_click_count.
C26_RecordsComeFromInserts ==
  \A k \in DOMAIN table : {"longUrl", "createdAt", "expiryDate"} \subseteq DOMAIN table[k]

\* Every invocation started so far is a createOrGet without custom suffix.
OnlyPlainCreates ==
  Cardinality({r \in Reqs : req[r].op = "create" /\ req[r].custom_suffix = NoCode}) = started

\* C27: as long as only createOrGet requests without custom suffix have
\* run, in whatever interleaving, the table holds at most one alive mapping
\* of each long URL.
C27_OneAlivePerUrl ==
  OnlyPlainCreates
  => \A url \in UrlInputs : Cardinality(AliveFor(table, url, now)) <= 1

\* C28: a createOrGet with a valid custom suffix that answered 200 or 201
\* answered with that suffix as the short code.
C28_SuccessCarriesSuffix ==
  \A r \in Reqs :
    (/\ req[r].op = "create" /\ req[r].pc = "done"
     /\ Len(req[r].custom_suffix) >= CUSTOM_SUFFIX_MIN_LENGTH
     /\ Len(req[r].custom_suffix) <= CUSTOM_SUFFIX_MAX_LENGTH
     /\ InSuffixAlphabet(req[r].custom_suffix)
     /\ req[r].resp.status \in {HTTP_STATUS_OK, HTTP_STATUS_CREATED})
    => req[r].resp.shortId = req[r].custom_suffix

\* C29: a run computes expiryDate and ttlTimestamp when it leaves the dedup
\* lookup, keeps them through all its attempts, and the record an attempt
\* inserts carries exactly them.
C29_OneDeadlinePerRun ==
  [][\A r \in Reqs :
       /\ (req[r].pc = "dedup" /\ req'[r].pc = "attempt")
          => /\ req'[r].expiry_date = DaysAfter(now, DEFAULT_EXPIRY_DAYS)
             /\ req'[r].ttl_timestamp = EpochSeconds(req'[r].expiry_date.local)
       /\ (req[r].pc = "attempt" /\ Moves(r))
          => /\ req'[r].expiry_date = req[r].expiry_date
             /\ req'[r].ttl_timestamp = req[r].ttl_timestamp
       /\ (PutStep(r) /\ Last(req'[r].puts).result = "ok")
          => /\ table'[Last(req'[r].puts).code].expiryDate = req[r].expiry_date
             /\ table'[Last(req'[r].puts).code].ttlTimestamp = req[r].ttl_timestamp]_vars

\* C29 witness: a run inserted at its third attempt, later than the instant
\* at which it computed its deadline.
C29_Witness ==
  \E r \in Reqs :
    /\ req[r].op = "create" /\ req[r].resp.status = HTTP_STATUS_CREATED
    /\ Len(req[r].puts) = MAX_COLLISION_RETRIES
    /\ req[r].resp.shortId \in DOMAIN table
    /\ table[req[r].resp.shortId].expiryDate = req[r].expiry_date
    /\ table[req[r].resp.shortId].createdAt.local + ExpiryTicks > req[r].expiry_date.local

\* C30: every record the create path stored has its expiryDate strictly
\* after its createdAt.
C30_ExpiryAfterCreation ==
  \A k \in DOMAIN table :
    {"createdAt", "expiryDate"} \subseteq DOMAIN table[k]
    => IsoInstant(table[k].expiryDate) > IsoInstant(table[k].createdAt)

\* C30 witness: a record stored by a second or third attempt, after the
\* run's first instant.
C30_Witness ==
  \E r \in Reqs :
    /\ req[r].op = "create" /\ req[r].resp.status = HTTP_STATUS_CREATED
    /\ req[r].attempt > 0
    /\ req[r].resp.shortId \in DOMAIN table
    /\ "createdAt" \in DOMAIN table[req[r].resp.shortId]
    /\ IsoInstant(table[req[r].resp.shortId].createdAt) + ExpiryTicks
         > IsoInstant(req[r].expiry_date)

\* C31 (as stated): the ttlTimestamp of every record the create path stored
\* is the very instant of its expiryDate, counted in seconds.
C31_TtlSameInstant ==
  \A k \in DOMAIN table :
    {"ttlTimestamp", "expiryDate"} \subseteq DOMAIN table[k]
    => table[k].ttlTimestamp * TicksPerSecond = IsoInstant(table[k].expiryDate)

\* C31 (amended): the ttlTimestamp of every record the create path stored
\* is the instant of its expiryDate cut down to whole epoch seconds: it is
\* not after expiryDate and less than one second before it.
C31_TtlIsExpiryWholeSeconds ==
  \A k \in DOMAIN table :
    {"ttlTimestamp", "expiryDate"} \subseteq DOMAIN table[k]
    => /\ table[k].ttlTimestamp * TicksPerSecond <= IsoInstant(table[k].expiryDate)
       /\ IsoInstant(table[k].expiryDate) < (table[k].ttlTimestamp + 1) * TicksPerSecond

\* C31 witness: a stored record whose expiryDate is not on a whole second.
C31_Witness ==
  \E k \in DOMAIN table :
    /\ {"ttlTimestamp", "expiryDate"} \subseteq DOMAIN table[k]
    /\ IsoInstant(table[k].expiryDate) % TicksPerSecond # 0

\* C32: once a createOrGet has answered 200 or 201 with code c for long URL
\* L, a resolve of c whose lookup is answered while the mapping is stored
\* and now is not after its expiryDate goes on to the counter update, and
\* its counter update step ends it with the 302 redirect to L.
C32_CreatedCodeResolves ==
  [][\A r, q \in Reqs :
       (/\ req[q].op = "create" /\ req[q].pc = "done"
        /\ req[q].resp.status \in {HTTP_STATUS_OK, HTTP_STATUS_CREATED}
        /\ req[r].op = "resolve" /\ req[r].short_id = req[q].resp.shortId
        /\ req[r].short_id \in DOMAIN table
        /\ Attr(table[req[r].short_id], "longUrl", NoUrl) = req[q].resp.longUrl
        /\ Attr(table[req[r].short_id], "expiryDate", NoText) = req[q].resp.expiryDate
        /\ now <= IsoInstant(req[q].resp.expiryDate)
        /\ Moves(r))
       => /\ (req[r].pc = "get" /\ req'[r].exc = NoExc)
             => (req'[r].pc = "click" /\ req'[r].found.longUrl = req[q].resp.longUrl)
          /\ (req[r].pc = "click")
             => /\ req'[r].pc = "done"
                /\ req'[r].resp = create_redirect_response(req[q].resp.longUrl)]_vars

\* C33: a run of create_short_url_with_retry that is in its loop has issued
\* fewer than 3 inserts, no run ever issues more than 3, and every run that
\* is in its loop comes to its end, by a result or by an exception.
C33_RunTerminates ==
  \A r \in Reqs :
    /\ [](req[r].pc = "attempt" => Len(req[r].puts) < MAX_COLLISION_RETRIES)
    /\ [](Len(req[r].puts) <= MAX_COLLISION_RETRIES)
    /\ (req[r].pc = "attempt") ~> (req[r].pc = "done")

\* C33 witness: a run ended by a store failure at its third insert.
C33_Witness ==
  \E r \in Reqs :
    /\ req[r].op = "create" /\ req[r].pc = "done"
    /\ Len(req[r].puts) = MAX_COLLISION_RETRIES
    /\ req[r].puts[MAX_COLLISION_RETRIES].result = "error"

\* C34: every invocation of the create-or-get handler that has ended has
\* answered with a status of 200, 201, 400, 409 or 500, and every invocation
\* of the redirect handler that has ended with 302, 400, 404, 410 or 500,
\* whatever exception was raised inside it.
C34_HandlersTotal ==
  \A r \in Reqs :
    /\ (req[r].op = "create" /\ req[r].pc = "done")
       => req[r].resp.status \in {HTTP_STATUS_OK, HTTP_STATUS_CREATED, HTTP_STATUS_BAD_REQUEST,
                                  HTTP_STATUS_CONFLICT, HTTP_STATUS_INTERNAL_ERROR}
    /\ (req[r].op = "resolve" /\ req[r].pc = "done")
       => req[r].resp.status \in {HTTP_STATUS_FOUND, HTTP_STATUS_BAD_REQUEST,
                                  HTTP_STATUS_NOT_FOUND, HTTP_STATUS_GONE,
                                  HTTP_STATUS_INTERNAL_ERROR}
    /\ (req[r].exc # NoExc) => (req[r].pc = "done" /\ req[r].resp # NoResp)

\* C34 witness: a create-or-get ended on a NotFoundError of the store while
\* a redirect ended on an exception that is no LambdaError.
C34_Witness ==
  \E r, q \in Reqs :
    /\ req[r].op = "create" /\ req[r].pc = "done" /\ req[r].exc.type = "NotFoundError"
    /\ req[q].op = "resolve" /\ req[q].pc = "done" /\ req[q].exc.type = "Exception"

\* The code is one the create path can store: 6 characters of the generator,
\* or a suffix of 3 to 20 characters, of [A-Za-z0-9_-].
StorableCode(x) ==
  /\ Len(x) >= CUSTOM_SUFFIX_MIN_LENGTH /\ Len(x) <= CUSTOM_SUFFIX_MAX_LENGTH
  /\ InSuffixAlphabet(x)

\* C35: for a proxy path stage/{s}/tenant/{t}/{x} with x a code the create
\* path can store, extract_path_parameters returns short_id = x.
C35_MultiTenantShortId ==
  (/\ probe.fn = "extract_path_parameters" /\ probe.pc = "returned" /\ probe.has_proxy
   /\ Len(probe.proxy) = 5
   /\ probe.proxy[1] = Stage /\ probe.proxy[3] = Tenant
   /\ StorableCode(probe.proxy[5]))
  => probe.result.short_id = probe.proxy[5]

\* C36: a create-or-get whose body is missing, empty, not valid JSON or
\* neither a string nor an object is answered 400, with no lookup and no
\* insert.
C36_BadBodyIs400 ==
  \A r \in Reqs :
    (req[r].op = "create" /\ req[r].body \in {"missing", "empty", "invalid_json", "number"})
    => /\ req[r].pc = "done"
       /\ req[r].resp.status = HTTP_STATUS_BAD_REQUEST
       /\ req[r].puts = <<>>
       /\ req[r].found = NoItem

\* C37: no step lowers the clickCount of a key that is stored before and
\* after it, and the step of a resolve whose update_click_count succeeds
\* raises the clickCount of its record by exactly 1.
C37_ClickCountMonotone ==
  [][/\ \A k \in DOMAIN table \cap DOMAIN table' :
          Attr(table'[k], "clickCount", 0) >= Attr(table[k], "clickCount", 0)
     /\ \A r \in Reqs :
          (/\ req[r].op = "resolve" /\ req[r].pc = "click" /\ Moves(r)
           /\ table' # table /\ req[r].short_id \in DOMAIN table)
          => table'[req[r].short_id].clickCount
               = Attr(table[req[r].short_id], "clickCount", 0) + 1]_vars

\* C37 witness: two resolves that were at their counter update at the same
\* time have both updated, and the record counts both.
C37_Witness ==
  \E r, q \in Reqs :
    /\ r # q
    /\ req[r].op = "resolve" /\ req[r].resp.status = HTTP_STATUS_FOUND /\ req[r].clicks = 1
    /\ req[q].op = "resolve" /\ req[q].resp.status = HTTP_STATUS_FOUND /\ req[q].clicks = 1
    /\ req[r].short_id = req[q].short_id
    /\ req[r].short_id \in DOMAIN table
    /\ table[req[r].short_id].clickCount = NumReqs

=============================================================================
